---- MODULE Spec2Model ----
(***************************************************************************)
(* A model of the two adapters of the repository:                          *)
(*   - ChronicleClient.ingest   (src/chronicle_cls/utils/chronicle_client.py)*)
(*   - NotifierPlugin           (src/notifier_itsm/main.py)                *)
(* Python values are tagged records ([t |-> <type name>, ...]) so that the *)
(* code's type tests, ==, .get and attribute errors can be computed.       *)
(***************************************************************************)
EXTENDS Integers, Sequences, FiniteSets, TLC

VARIABLES
    \* ---- ChronicleClient ----
    configuration,   \* self.configuration of the ChronicleClient (a dict of strings)
    is_validate,     \* argument of the running ingest call
    pc,              \* position of the running ingest call
    url,             \* local url (parts of the f-string), <<>> before it is built
    payload,         \* local payload, Unbound before it is built
    response,        \* local variable response: the Response object, then its parsed JSON
    received,        \* what http_session.request gave this call (kept for the claims)
    posted,          \* the URLs http_session.request was invoked with in this call
    log,             \* levels of the log records emitted by this call, in order
    reads,           \* number of response.get("error") evaluations in this call
    exc,             \* the exception in flight / raised to the caller
    result,          \* the value returned to the caller
    \* ---- NotifierPlugin._get_args_from_params ----
    params,          \* the params mapping of the last call
    args,            \* what the last call returned, Unbound before any call
    \* ---- NotifierPlugin.validate_step ----
    step,            \* [name, configuration] the call is made with
    validation,      \* Unbound, or the finished call: [result, exc, calls, validator, passed]
    \* ---- NotifierPlugin.create_task ----
    plugin,          \* per plugin instance: its configuration and its proxy
    bindings,        \* the proxy bound into each patched module-level function
    task,            \* per plugin instance: the running / finished create_task call
    minted,          \* number of uuid4 values generated so far
    \* ---- NotifierPlugin.get_fields ----
    form,            \* [name, configuration, arguments] the call is made with
    fields           \* Unbound, or the finished call: [fields, exc]

ingestVars == <<configuration, is_validate, pc, url, payload, response, received, posted,
                log, reads, exc, result>>

argsVars == <<params, args>>

validateVars == <<step, validation>>

taskVars == <<plugin, bindings, task, minted>>

fieldsVars == <<form, fields>>

vars == <<ingestVars, argsVars, validateVars, taskVars, fieldsVars>>

\* What an operation of one component leaves alone: the other components
notIngestVars == <<argsVars, validateVars, taskVars, fieldsVars>>
notArgsVars == <<ingestVars, validateVars, taskVars, fieldsVars>>
notValidateVars == <<ingestVars, argsVars, taskVars, fieldsVars>>
notTaskVars == <<ingestVars, argsVars, validateVars, fieldsVars>>
notFieldsVars == <<ingestVars, argsVars, validateVars, taskVars>>

-----------------------------------------------------------------------------
(* Python values *)

PyNone == [t |-> "NoneType"]
PyStr(s) == [t |-> "str", s |-> s]
PyInt(n) == [t |-> "int", n |-> n]
PyBool(b) == [t |-> "bool", b |-> b]
PyList(l) == [t |-> "list", l |-> l]
PyDict(d) == [t |-> "dict", d |-> d]
Unbound == [t |-> "unbound"]
NoExc == [type |-> "none", msg |-> <<>>]

Range(s) == {s[i] : i \in DOMAIN s}

\* dict.get(key, default) on a model dict (a function from keys to values)
DictGet(d, key, default) == IF key \in DOMAIN d THEN d[key] ELSE default

\* Strings whose blanks matter are sequences of characters.
Whitespace == {" ", "\t"}

RECURSIVE LStrip(_)
LStrip(s) == IF s = <<>> THEN s
             ELSE IF Head(s) \in Whitespace THEN LStrip(Tail(s)) ELSE s

RECURSIVE RStrip(_)
RStrip(s) == IF s = <<>> THEN s
             ELSE IF s[Len(s)] \in Whitespace THEN RStrip(SubSeq(s, 1, Len(s) - 1)) ELSE s

\* str.strip()
Strip(s) == RStrip(LStrip(s))

\* str(x) as an f-string renders it, for the values an envelope can hold
Format(v) ==
    CASE v.t = "str" -> v.s
      [] v.t = "int" -> ToString(v.n)
      [] v.t = "bool" -> IF v.b THEN "True" ELSE "False"
      [] v.t = "NoneType" -> "None"
      [] OTHER -> "<repr>"

-----------------------------------------------------------------------------
(* ChronicleClient: constants and inputs *)

\* chronicle_constants.DEFAULT_URL: the static region -> base URL table
DEFAULT_URL == [usa |-> "https://usa.ingest", europe |-> "https://europe.ingest",
                asia |-> "https://asia.ingest"]

PLUGIN_NAME_CLS == "Google Chronicle"

\* region values a configuration may hold: custom, table keys, and strings that are neither
Regions == {"custom", "usa", "europe", "asia", "mars", ""}

\* A key that may be missing from a dict: no entry, or one of the values
Optional(key, values) == {<<>>} \cup {key :> v : v \in values}

\* The configurations a client can be constructed with: every key is optional.
Configurations ==
    {r @@ c @@ k : r \in Optional("region", Regions),
                   c \in Optional("custom_region", {"https://custom.ingest"}),
                   k \in Optional("customer_id", {<<" ", "c", "1", " ">>})}

\* The error envelope {"code": .., "message": .., "status": ..}
Envelope(code, message, status) ==
    PyDict([code |-> PyInt(code), message |-> PyStr(message), status |-> PyStr(status)])

\* JSON documents the endpoint may answer with
JsonBodies ==
    {PyDict(<<>>)}
    \cup {PyDict([error |-> Envelope(c, "m", s)]) :
            c \in {400, 403},
            s \in {"FAILED_PRECONDITION", "PERMISSION_DENIED", "INVALID_ARGUMENT",
                   "UNAVAILABLE"}}
    \cup {PyDict([error |-> Envelope(400, "m", "INVALID_ARGUMENT"), extra |-> PyInt(1)]),
          PyDict([error |-> PyDict([message |-> PyStr("m")])]),
          PyDict([error |-> PyDict(<<>>)]),
          PyDict([error |-> PyDict([code |-> PyNone, message |-> PyNone,
                                    status |-> PyInt(7)])]),
          PyDict([error |-> PyNone]),
          PyDict([error |-> PyStr("boom")]),
          PyDict([foo |-> PyInt(1)]),
          PyList(<<>>), PyList(<<PyInt(1)>>), PyStr(""), PyStr("ok"),
          PyInt(0), PyBool(FALSE), PyNone}

\* A requests.Response: status code and body; decode says what response.json() does
Responses ==
    {[t |-> "Response", status_code |-> c, decode |-> "ok", json |-> j] :
        c \in {200, 204, 400, 500}, j \in JsonBodies}
    \cup {[t |-> "Response", status_code |-> c, decode |-> d, json |-> PyNone] :
        c \in {200, 500}, d \in {"JSONDecodeError", "ValueError"}}

\* Exceptions http_session.request may raise
TransportErrors == {"HTTPError", "ConnectionError", "ConnectTimeout", "ReadTimeout",
                    "MissingSchema", "TransportError"}

\* isinstance(e, cls) for the exception classes the handlers name
IsInstance(type, cls) ==
    \/ cls = "Exception"
    \/ type = cls
    \/ type = "ConnectTimeout" /\ cls \in {"ConnectionError", "Timeout"}
    \/ type = "ReadTimeout" /\ cls = "Timeout"

-----------------------------------------------------------------------------
(* ChronicleClient.ingest *)

Raise(type, msg) == [type |-> type, msg |-> msg]

\* BaseUrl with the table read by .get(region, <baseline URL>) instead of a subscript
BaseUrlFallback(cfg) ==
    IF DictGet(cfg, "region", "") = "custom"
    THEN [ok |-> TRUE, v |-> DictGet(cfg, "custom_region", "")]
    ELSE [ok |-> TRUE, v |-> DictGet(DEFAULT_URL, DictGet(cfg, "region", "usa"),
                                     DEFAULT_URL["usa"])]

\* lines 86-89: the base URL, or the KeyError of the table lookup
BaseUrl(cfg) ==
    IF DictGet(cfg, "region", "") = "custom"
    THEN [ok |-> TRUE, v |-> DictGet(cfg, "custom_region", "")]
    ELSE LET region == DictGet(cfg, "region", "usa")
         IN  IF region \in DOMAIN DEFAULT_URL
             THEN [ok |-> TRUE, v |-> DEFAULT_URL[region]]
             ELSE [ok |-> FALSE, v |-> region]

\* "not response" in place of "response == {}": every falsy value passes
IsFalsy(v) ==
    \/ v.t = "dict" /\ DOMAIN v.d = {}
    \/ v.t = "list" /\ v.l = <<>>
    \/ v.t = "str" /\ v.s = ""
    \/ v.t = "int" /\ v.n = 0
    \/ v.t = "bool" /\ ~v.b
    \/ v.t = "NoneType"

\* response == {}
IsEmptyDict(v) == v.t = "dict" /\ DOMAIN v.d = {}

\* x.get(key): None for a missing key; only a dict has the method
HasGet(v) == v.t = "dict"
Get(v, key) == DictGet(v.d, key, PyNone)

\* EnvelopeError with INVALID_ARGUMENT listed among the customer-id statuses
EnvelopeErrorMisfiled(error) ==
    LET status_code == DictGet(error.d, "code", PyNone)
        message == DictGet(error.d, "message", PyNone)
        status == DictGet(error.d, "status", PyNone)
    IN  IF status \in {PyStr("FAILED_PRECONDITION"), PyStr("PERMISSION_DENIED"),
                       PyStr("INVALID_ARGUMENT")}
        THEN Raise("Exception", <<"Invalid Customer ID provided. ", Format(message)>>)
        ELSE Raise("Exception", <<"status_code: ", Format(status_code), ", message: ",
                                  Format(message), ", status: ", Format(status)>>)

\* lines 154-164: the exception the envelope is turned into
EnvelopeError(error) ==
    LET status_code == Get(error, "code")
        message == Get(error, "message")
        status == Get(error, "status")
    IN  IF status \in {PyStr("FAILED_PRECONDITION"), PyStr("PERMISSION_DENIED")}
        THEN Raise("Exception", <<"Invalid Customer ID provided. ", Format(message)>>)
        ELSE IF status \in {PyStr("INVALID_ARGUMENT")}
        THEN Raise("Exception", <<"Invalid UDM event provided. ", Format(message)>>)
        ELSE Raise("Exception", <<"status_code: ", Format(status_code), ", message: ",
                                  Format(message), ", status: ", Format(status)>>)

NoAttribute(v) == Raise("AttributeError", <<"'", v.t, "' object has no attribute 'get'">>)

\* DispatchOutcome without the "is_validate and response == {}" test of line 148
DispatchOutcomeNoValidate(validate, resp) ==
    IF IsEmptyDict(resp)
    THEN [pc |-> "returned", result |-> PyNone, exc |-> NoExc, reads |-> 0]
    ELSE IF ~HasGet(resp)
    THEN [pc |-> "handler", result |-> Unbound, exc |-> NoAttribute(resp), reads |-> 0]
    ELSE IF ~HasGet(Get(resp, "error"))
    THEN [pc |-> "handler", result |-> Unbound, exc |-> NoAttribute(Get(resp, "error")),
          reads |-> 1]
    ELSE [pc |-> "handler", result |-> Unbound, exc |-> EnvelopeError(Get(resp, "error")),
          reads |-> 3]

\* lines 148-164: what ingest does with the local response once the status is checked:
\* return True / return None / raise, and how many response.get("error") it evaluated
DispatchOutcome(validate, resp) ==
    IF validate /\ IsEmptyDict(resp)
    THEN [pc |-> "returned", result |-> PyBool(TRUE), exc |-> NoExc, reads |-> 0]
    ELSE IF IsEmptyDict(resp)
    THEN [pc |-> "returned", result |-> PyNone, exc |-> NoExc, reads |-> 0]
    ELSE IF ~HasGet(resp)
    THEN [pc |-> "handler", result |-> Unbound, exc |-> NoAttribute(resp), reads |-> 0]
    ELSE IF ~HasGet(Get(resp, "error"))
    THEN [pc |-> "handler", result |-> Unbound, exc |-> NoAttribute(Get(resp, "error")),
          reads |-> 1]
    ELSE [pc |-> "handler", result |-> Unbound, exc |-> EnvelopeError(Get(resp, "error")),
          reads |-> 3]

\* Handler without the final "except Exception" clause: other exceptions pass through
HandlerNoCatchAll(e) ==
    IF IsInstance(e.type, "HTTPError")
    THEN [logs |-> <<"error">>,
          exc |-> Raise("GoogleChroniclePluginException",
                        <<"HTTP Error occurred while ingesting data.">>)]
    ELSE IF IsInstance(e.type, "ConnectionError")
    THEN [logs |-> <<"error">>,
          exc |-> Raise("GoogleChroniclePluginException",
                        <<"Unable to establish connection with ", PLUGIN_NAME_CLS,
                          " while ingesting data. ",
                          "Check Region or Custom URL provided in configuration parameter.">>)]
    ELSE IF IsInstance(e.type, "Timeout")
    THEN [logs |-> <<"error">>,
          exc |-> Raise("GoogleChroniclePluginException",
                        <<"Request timed out while ingesting data.">>)]
    ELSE [logs |-> <<>>, exc |-> e]

\* lines 166-202: what the except clauses make of an exception e, first match wins
Handler(e) ==
    IF IsInstance(e.type, "HTTPError")
    THEN [logs |-> <<"error">>,
          exc |-> Raise("GoogleChroniclePluginException",
                        <<"HTTP Error occurred while ingesting data.">>)]
    ELSE IF IsInstance(e.type, "ConnectionError")
    THEN [logs |-> <<"error">>,
          exc |-> Raise("GoogleChroniclePluginException",
                        <<"Unable to establish connection with ", PLUGIN_NAME_CLS,
                          " while ingesting data. ",
                          "Check Region or Custom URL provided in configuration parameter.">>)]
    ELSE IF IsInstance(e.type, "Timeout")
    THEN [logs |-> <<"error">>,
          exc |-> Raise("GoogleChroniclePluginException",
                        <<"Request timed out while ingesting data.">>)]
    ELSE IF IsInstance(e.type, "GoogleChroniclePluginException")
    THEN [logs |-> <<>>, exc |-> e]
    ELSE [logs |-> <<"error">>,
          exc |-> Raise("GoogleChroniclePluginException",
                        <<"Unexpected error occurred while requesting to ", PLUGIN_NAME_CLS,
                          " server while ingesting data. Error: ">> \o e.msg)]

IngestInit ==
    /\ configuration \in Configurations
    /\ is_validate = FALSE
    /\ pc = "idle"
    /\ url = <<>>
    /\ payload = Unbound
    /\ response = Unbound
    /\ received = Unbound
    /\ posted = <<>>
    /\ log = <<>>
    /\ reads = 0
    /\ exc = NoExc
    /\ result = Unbound

\* The caller invokes ingest(transformed_data, headers, is_validate, ...)
IngestCall ==
    /\ UNCHANGED notIngestVars
    /\ pc \in {"idle", "returned", "raised"}
    /\ \E v \in BOOLEAN : is_validate' = v
    /\ pc' = "resolve"
    /\ url' = <<>>
    /\ payload' = Unbound
    /\ response' = Unbound
    /\ received' = Unbound
    /\ posted' = <<>>
    /\ log' = <<>>
    /\ reads' = 0
    /\ exc' = NoExc
    /\ result' = Unbound
    /\ UNCHANGED configuration

\* lines 86-91
ResolveUrl ==
    /\ UNCHANGED notIngestVars
    /\ pc = "resolve"
    /\ LET base == BaseUrl(configuration)
       IN  IF base.ok
           THEN /\ url' = <<base.v, "/v2/udmevents:batchCreate">>
                /\ pc' = "payload"
                /\ exc' = exc
           ELSE /\ exc' = Raise("KeyError", <<"'", base.v, "'">>)
                /\ pc' = "handler"
                /\ url' = url
    /\ UNCHANGED <<configuration, is_validate, payload, response, received, posted, log, reads,
                   result>>

\* lines 92-103: the payload (customer id trimmed) and the debug record
BuildPayload ==
    /\ UNCHANGED notIngestVars
    /\ pc = "payload"
    /\ IF "customer_id" \in DOMAIN configuration
       THEN /\ payload' = [customer_id |-> Strip(configuration["customer_id"]),
                            events |-> "transformed_data"]
            /\ log' = Append(log, "debug")
            /\ pc' = "request"
            /\ exc' = exc
       ELSE /\ exc' = Raise("KeyError", <<"'", "customer_id", "'">>)
            /\ pc' = "handler"
            /\ UNCHANGED <<payload, log>>
    /\ UNCHANGED <<configuration, is_validate, url, response, received, posted, reads, result>>

\* SendRequest with one more attempt after a transport failure
SendRequestRetry ==
    /\ UNCHANGED notIngestVars
    /\ pc = "request"
    /\ posted' = Append(posted, url)
    /\ \/ \E r \in Responses :
            /\ response' = r
            /\ received' = r
            /\ pc' = "status"
            /\ exc' = exc
       \/ \E e \in TransportErrors :
            /\ exc' = IF posted = <<>> THEN exc ELSE Raise(e, <<e>>)
            /\ pc' = IF posted = <<>> THEN "request" ELSE "handler"
            /\ UNCHANGED <<response, received>>
    /\ UNCHANGED <<configuration, is_validate, url, payload, log, reads, result>>

\* lines 104-109: the one POST; the transport answers or raises
SendRequest ==
    /\ UNCHANGED notIngestVars
    /\ pc = "request"
    /\ posted' = Append(posted, url)
    /\ \/ \E r \in Responses :
            /\ response' = r
            /\ received' = r
            /\ pc' = "status"
            /\ exc' = exc
       \/ \E e \in TransportErrors :
            /\ exc' = Raise(e, <<e>>)
            /\ pc' = "handler"
            /\ UNCHANGED <<response, received>>
    /\ UNCHANGED <<configuration, is_validate, url, payload, log, reads, result>>

\* lines 110-123
CheckStatus ==
    /\ UNCHANGED notIngestVars
    /\ pc = "status"
    /\ IF response.status_code # 200
       THEN /\ log' = log \o <<"debug", "error">>
            /\ pc' = "dispatch"
       ELSE /\ log' = Append(log, "debug")
            /\ pc' = "parse"
    /\ UNCHANGED <<configuration, is_validate, url, payload, response, received, posted,
                   reads, exc, result>>

\* lines 124-146: response = response.json()
ParseJson ==
    /\ UNCHANGED notIngestVars
    /\ pc = "parse"
    /\ IF response.decode = "ok"
       THEN /\ response' = response.json
            /\ pc' = "dispatch"
            /\ UNCHANGED <<log, exc>>
       ELSE /\ log' = Append(log, "error")
            /\ exc' = Raise("GoogleChroniclePluginException",
                            IF response.decode = "JSONDecodeError"
                            THEN <<"Invalid JSON response received from API. Error: ",
                                   response.decode>>
                            ELSE <<"Unexpected error occurred while parsing json response. Error: ",
                                   response.decode>>)
            /\ pc' = "handler"
            /\ UNCHANGED response
    /\ UNCHANGED <<configuration, is_validate, url, payload, received, posted, reads, result>>

\* lines 148-164
Dispatch ==
    /\ UNCHANGED notIngestVars
    /\ pc = "dispatch"
    /\ LET o == DispatchOutcome(is_validate, response)
       IN  /\ pc' = o.pc
           /\ result' = o.result
           /\ exc' = o.exc
           /\ reads' = reads + o.reads
    /\ UNCHANGED <<configuration, is_validate, url, payload, response, received, posted, log>>

\* lines 166-202
HandleException ==
    /\ UNCHANGED notIngestVars
    /\ pc = "handler"
    /\ LET h == Handler(exc)
       IN  /\ log' = log \o h.logs
           /\ exc' = h.exc
    /\ pc' = "raised"
    /\ UNCHANGED <<configuration, is_validate, url, payload, response, received, posted, reads,
                   result>>

\* The client when the other adapter is the one under study
IngestUnused ==
    /\ configuration = <<>>
    /\ is_validate = FALSE
    /\ pc = "idle"
    /\ url = <<>>
    /\ payload = Unbound
    /\ response = Unbound
    /\ received = Unbound
    /\ posted = <<>>
    /\ log = <<>>
    /\ reads = 0
    /\ exc = NoExc
    /\ result = Unbound

IngestNext ==
    \/ IngestCall
    \/ ResolveUrl
    \/ BuildPayload
    \/ SendRequest
    \/ CheckStatus
    \/ ParseJson
    \/ Dispatch
    \/ HandleException


-----------------------------------------------------------------------------
(* Properties of ChronicleClient.ingest *)

Finished == pc \in {"returned", "raised"}
GotResponse == received.t = "Response"
Got200Json == GotResponse /\ received.status_code = 200 /\ received.decode = "ok"
UDM_PATH == "/v2/udmevents:batchCreate"
ConfiguredRegion == DictGet(configuration, "region", "absent")
UnexpectedPrefix == <<"Unexpected error occurred while requesting to ", PLUGIN_NAME_CLS,
                      " server while ingesting data. Error: ">>

\* The failure kind a raised exception stands for, read off its message
FailureKind(e) ==
    IF "Invalid UDM event provided. " \in Range(e.msg) THEN "InvalidEvent"
    ELSE IF "Invalid Customer ID provided. " \in Range(e.msg) THEN "InvalidCustomerID"
    ELSE "Unknown"

\* C1: a call whose HTTP response has a status code other than 200 logs an error
\* and returns normally to the caller, without raising.
C1_Non200ReturnsNormally ==
    (Finished /\ GotResponse /\ received.status_code # 200)
        => (pc = "returned" /\ "error" \in Range(log))

\* C2 (as claimed): the request is issued, to <base>/v2/udmevents:batchCreate, with
\* <base> the custom URL for region "custom", the table's URL for a table key, and
\* the baseline (usa) URL both when no region is configured and when the region is
\* neither "custom" nor a table key.  (Read for calls whose payload can be built.)
C2_FallbackBase ==
    IF ConfiguredRegion = "custom" THEN DictGet(configuration, "custom_region", "")
    ELSE IF ConfiguredRegion \in DOMAIN DEFAULT_URL THEN DEFAULT_URL[ConfiguredRegion]
    ELSE DEFAULT_URL["usa"]

C2_UnknownRegionFallsBack ==
    (Finished /\ "customer_id" \in DOMAIN configuration)
        => posted = <<(<<C2_FallbackBase, UDM_PATH>>)>>

\* C2 (amended): for region "custom", a table key, or no region the request is issued
\* once to <base>/v2/udmevents:batchCreate (custom URL / table URL / usa URL); for a
\* region that is neither "custom" nor a table key no request is issued and ingest
\* raises GoogleChroniclePluginException.  (Calls whose payload can be built.)
C2_UrlByRegion ==
    (Finished /\ "customer_id" \in DOMAIN configuration)
        => IF ConfiguredRegion \in {"custom", "absent"} \cup DOMAIN DEFAULT_URL
           THEN posted = <<(<<C2_FallbackBase, UDM_PATH>>)>>
           ELSE /\ posted = <<>>
                /\ pc = "raised"
                /\ exc.type = "GoogleChroniclePluginException"

C2_Witness ==
    /\ pc = "raised"
    /\ ConfiguredRegion = "mars"
    /\ "customer_id" \in DOMAIN configuration
    /\ posted = <<>>

\* C3: a 200 response whose body is an object with an error envelope always raises,
\* and the failure depends only on error.status: INVALID_ARGUMENT -> InvalidEvent,
\* FAILED_PRECONDITION / PERMISSION_DENIED -> InvalidCustomerID, anything else ->
\* Unknown, whose message carries code, message and status as they were.
HasEnvelope ==
    /\ Got200Json
    /\ received.json.t = "dict"
    /\ "error" \in DOMAIN received.json.d
    /\ received.json.d["error"].t = "dict"

C3_KindOfStatus(status) ==
    IF status = PyStr("INVALID_ARGUMENT") THEN "InvalidEvent"
    ELSE IF status = PyStr("FAILED_PRECONDITION") \/ status = PyStr("PERMISSION_DENIED")
    THEN "InvalidCustomerID"
    ELSE "Unknown"

C3_EnvelopeByStatus ==
    (Finished /\ HasEnvelope)
        => LET error == received.json.d["error"].d
               field(k) == Format(DictGet(error, k, PyNone))
           IN  /\ pc = "raised"
               /\ result = Unbound
               /\ FailureKind(exc) = C3_KindOfStatus(DictGet(error, "status", PyNone))
               /\ FailureKind(exc) = "Unknown"
                    => exc.msg = UnexpectedPrefix \o
                         <<"status_code: ", field("code"), ", message: ", field("message"),
                           ", status: ", field("status")>>

C3_Witness ==
    /\ pc = "raised"
    /\ HasEnvelope
    /\ DictGet(received.json.d["error"].d, "status", PyNone) = PyStr("INVALID_ARGUMENT")
    /\ FailureKind(exc) = "InvalidEvent"

\* C4: a 200 response whose JSON body is not {} and has no "error" key (a non-object
\* included) never ends in a normal return, whatever is_validate is.
NoErrorKey ==
    /\ Got200Json
    /\ received.json # PyDict(<<>>)
    /\ received.json.t = "dict" => "error" \notin DOMAIN received.json.d

C4_NoErrorKeyNeverSucceeds ==
    NoErrorKey => (pc # "returned" /\ result = Unbound /\ (Finished => pc = "raised"))

C4_Witness ==
    /\ pc = "raised"
    /\ NoErrorKey
    /\ received.json.t = "list"
    /\ is_validate

\* C5: a 200 response whose body is {} always succeeds: True for is_validate, no
\* value otherwise, and no envelope field is read on the way.
EmptyBody == Got200Json /\ received.json = PyDict(<<>>)

C5_EmptyBodySucceeds ==
    EmptyBody
        => /\ pc \in {"status", "parse", "dispatch", "returned"}
           /\ reads = 0
           /\ exc = NoExc
           /\ Finished => result = (IF is_validate THEN PyBool(TRUE) ELSE PyNone)

C5_Witness ==
    /\ pc = "returned"
    /\ EmptyBody
    /\ is_validate
    /\ result = PyBool(TRUE)

\* C6: whenever ingest ends by raising, what reaches the caller is a
\* GoogleChroniclePluginException, and an error record was logged in that call
\* before the raise.
C6_RaisesAdapterExceptionAfterLog ==
    /\ pc = "raised" => (exc.type = "GoogleChroniclePluginException" /\ "error" \in Range(log))
    /\ (pc = "handler" /\ exc.type = "GoogleChroniclePluginException")
            => "error" \in Range(log)

C6_Witness ==
    /\ pc = "raised"
    /\ received = Unbound
    /\ posted # <<>>
    /\ exc.msg = <<"Request timed out while ingesting data.">>

\* C14: a call of ingest issues at most one HTTP request; a finished call has
\* issued exactly one when the URL and the payload were built, and none otherwise;
\* a request already issued is never followed by another in the same call.
C14_OneRequestPerCall ==
    /\ Len(posted) <= 1
    /\ pc \in {"status", "parse", "dispatch"} => Len(posted) = 1
    /\ (Finished /\ payload # Unbound) => Len(posted) = 1
    /\ (Finished /\ payload = Unbound) => posted = <<>>
    /\ posted # <<>> => pc # "request"

C14_Witness ==
    /\ pc = "raised"
    /\ GotResponse
    /\ received.status_code = 500
    /\ payload # Unbound
    /\ Len(posted) = 1

-----------------------------------------------------------------------------
(* NotifierPlugin: argument resolution *)
(* In this adapter a str value carries its characters as a sequence, so    *)
(* that strip() and the comparison with the sentinels are computed.        *)

BOOLEAN_TRUE == <<"b", "o", "o", "l", "e", "a", "n", "_", "t", "r", "u", "e">>
BOOLEAN_FALSE == <<"b", "o", "o", "l", "e", "a", "n", "_", "f", "a", "l", "s", "e">>

PyFloat(n) == [t |-> "float", tenths |-> n]

\* A dict restricted to some of its keys
Restrict(d, keys) == [k \in keys |-> d[k]]

\* _remove_empties with value != "" in place of value.strip() != ""
RemoveEmptiesNoStrip(data) ==
    Restrict(data, {key \in DOMAIN data :
                        \/ data[key].t = "str" /\ data[key].s # <<>>
                        \/ data[key].t \in {"int", "bool"}})

\* lines 188-203
_remove_empties(data) ==
    Restrict(data, {key \in DOMAIN data :
                        \/ data[key].t = "str" /\ Strip(data[key].s) # <<>>
                        \/ data[key].t \in {"int", "bool"}})

\* _get_args_from_params without the branch for "boolean_false" (lines 270-271)
GetArgsFromParamsTrueOnly(p) ==
    LET new_dict == [key \in DOMAIN p |->
                        IF p[key] = PyStr(BOOLEAN_TRUE) THEN PyBool(TRUE)
                        ELSE p[key]]
    IN  _remove_empties(new_dict)

\* lines 260-278
_get_args_from_params(p) ==
    LET new_dict == [key \in DOMAIN p |->
                        IF p[key] = PyStr(BOOLEAN_TRUE) THEN PyBool(TRUE)
                        ELSE IF p[key] = PyStr(BOOLEAN_FALSE) THEN PyBool(FALSE)
                        ELSE p[key]]
    IN  _remove_empties(new_dict)

\* Number of keys a params mapping may hold
MaxParams == 3

ParamKeys == <<"a", "b", "c", "d", "e", "f", "g", "h">>

\* Values a params entry may hold: the sentinels, near-sentinels, blank and
\* non-blank strings, integers, booleans, None and values of other types
ParamValues ==
    {PyStr(BOOLEAN_TRUE), PyStr(BOOLEAN_FALSE),
     PyStr(<<" ">> \o BOOLEAN_TRUE), PyStr(<<"t", "r", "u", "e">>),
     PyStr(<<>>), PyStr(<<" ">>), PyStr(<<" ", "\t">>), PyStr(<<"x">>),
     PyStr(<<" ", "x", " ">>),
     PyInt(5), PyInt(0), PyBool(TRUE), PyBool(FALSE),
     PyNone, PyFloat(15), PyList(<<>>)}

ParamDicts ==
    UNION {[{ParamKeys[i] : i \in I} -> ParamValues] : I \in SUBSET (1..MaxParams)}

\* The params mapping the method is about to be called with
ArgsInit ==
    /\ params \in ParamDicts
    /\ args = Unbound

\* The call _get_args_from_params(params)
GetArgsFromParams ==
    /\ UNCHANGED notArgsVars
    /\ args = Unbound
    /\ args' = _get_args_from_params(params)
    /\ UNCHANGED params

ArgsUnused ==
    /\ params = <<>>
    /\ args = Unbound

ArgsNext == GetArgsFromParams

\* C10: _get_args_from_params returns exactly the entries whose value, once
\* "boolean_true"/"boolean_false" are replaced by true/false, is a non-blank string,
\* an integer or a boolean; the rest are dropped, keys and surviving values are
\* unchanged, and only the two sentinels become booleans.
C10_Replaced(v) ==
    CASE v.t = "str" /\ v.s = BOOLEAN_TRUE -> PyBool(TRUE)
      [] v.t = "str" /\ v.s = BOOLEAN_FALSE -> PyBool(FALSE)
      [] OTHER -> v

C10_Survives(v) ==
    \/ v.t = "str" /\ \E i \in DOMAIN v.s : v.s[i] \notin Whitespace
    \/ v.t = "int"
    \/ v.t = "bool"

C10_Example ==
    [a |-> PyStr(BOOLEAN_TRUE), b |-> PyStr(BOOLEAN_FALSE), c |-> PyStr(<<>>),
     d |-> PyStr(<<"x">>), e |-> PyInt(5), f |-> PyNone]

C10_ArgsFromParams ==
    /\ _get_args_from_params(C10_Example)
         = [a |-> PyBool(TRUE), b |-> PyBool(FALSE), d |-> PyStr(<<"x">>), e |-> PyInt(5)]
    /\ args # Unbound =>
         /\ DOMAIN args = {k \in DOMAIN params : C10_Survives(C10_Replaced(params[k]))}
         /\ \A k \in DOMAIN args :
              /\ args[k] = C10_Replaced(params[k])
              /\ args[k].t = "bool" =>
                    \/ params[k].t = "bool"
                    \/ params[k] \in {PyStr(BOOLEAN_TRUE), PyStr(BOOLEAN_FALSE)}
              /\ params[k] \notin {PyStr(BOOLEAN_TRUE), PyStr(BOOLEAN_FALSE)}
                    => args[k] = params[k]

C10_Witness ==
    /\ args # Unbound
    /\ DOMAIN params = {"a", "b", "c"}
    /\ params["a"] = PyStr(BOOLEAN_TRUE)
    /\ params["b"] = PyStr(<<" ", "\t">>)
    /\ params["c"] = PyNone
    /\ args = [a |-> PyBool(TRUE)]

-----------------------------------------------------------------------------
(* NotifierPlugin: the per-provider tables and provider resolution *)

\* lines 62-79
MAPPED_FIELDS ==
    [email |-> <<"message", "subject", "to_">>,
     gitter |-> <<"message">>,
     gmail |-> <<"message", "subject", "to_">>,
     hipchat |-> <<"message">>,
     join |-> <<"message", "clipboard", "title">>,
     mailgun |-> <<"message", "html", "subject">>,
     pagerduty |-> <<"message">>,
     popcornnotify |-> <<"message", "subject">>,
     pushbullet |-> <<"message", "title", "url">>,
     pushover |-> <<"message", "title", "url", "url_title">>,
     simplepush |-> <<"message", "title">>,
     slack |-> <<"message">>,
     statuspage |-> <<"message", "body">>,
     telegram |-> <<"message">>,
     twilio |-> <<"message">>,
     zulip |-> <<"message", "subject">>]

\* lines 82-99
PASSWORD_FIELDS ==
    [email |-> <<"password">>,
     gitter |-> <<"token">>,
     gmail |-> <<"password">>,
     hipchat |-> <<"token">>,
     join |-> <<"apikey">>,
     mailgun |-> <<"api_key">>,
     pagerduty |-> <<"routing_key">>,
     popcornnotify |-> <<"api_key">>,
     pushbullet |-> <<"token">>,
     pushover |-> <<"token">>,
     simplepush |-> <<"key">>,
     slack |-> <<>>,
     statuspage |-> <<"api_key">>,
     telegram |-> <<"token">>,
     twilio |-> <<"auth_token">>,
     zulip |-> <<"api_key">>]

\* lines 101-118
EXCLUDED_FIELDS ==
    [email |-> <<"attachments">>,
     gitter |-> <<>>,
     gmail |-> <<"attachments">>,
     hipchat |-> <<>>,
     join |-> <<>>,
     mailgun |-> <<"attachment">>,
     pagerduty |-> <<>>,
     popcornnotify |-> <<>>,
     pushbullet |-> <<"type_">>,
     pushover |-> <<"attachment">>,
     simplepush |-> <<>>,
     slack |-> <<>>,
     statuspage |-> <<>>,
     telegram |-> <<>>,
     twilio |-> <<>>,
     zulip |-> <<>>]

\* TABLE.get(platform, []) for a platform that is a str or None
FieldsOf(table, platform) ==
    IF platform.t = "str" /\ platform.s \in DOMAIN table THEN table[platform.s] ELSE <<>>

\* lib.notifiers: the names the provider registry knows (one of them has no
\* entry in the tables above)
RegisteredProviders == DOMAIN MAPPED_FIELDS \cup {"victorops"}

\* lib.notifiers.get_notifier: the provider object, or None for an unknown name
get_notifier(platform) ==
    IF platform.t = "str" /\ platform.s \in RegisteredProviders
    THEN [t |-> "Notifier", name |-> platform.s]
    ELSE PyNone

\* configuration.get("platform").get("name"): the name, or the AttributeError
PlatformName(conf) ==
    LET platform == DictGet(conf, "platform", PyNone)
    IN  IF HasGet(platform)
        THEN [ok |-> TRUE, v |-> Get(platform, "name"), exc |-> NoExc]
        ELSE [ok |-> FALSE, v |-> PyNone, exc |-> NoAttribute(platform)]

\* lines 175-186
_get_notifier(conf) ==
    LET platform == PlatformName(conf)
    IN  IF ~platform.ok
        THEN [ok |-> FALSE, v |-> PyNone, exc |-> platform.exc, logs |-> <<>>]
        ELSE LET notifier == get_notifier(platform.v)
             IN  IF notifier = PyNone
                 THEN [ok |-> FALSE, v |-> PyNone,
                       exc |-> Raise("ValueError", <<"Notifier not found.">>),
                       logs |-> <<"info", "info", "error">>]
                 ELSE [ok |-> TRUE, v |-> notifier, exc |-> NoExc,
                       logs |-> <<"info", "info">>]

\* {**a, **b}: the entries of b win
Merge(a, b) == b @@ a

\* The "platform" entries a plugin configuration may hold
PlatformEntries ==
    {<<>>}
    \cup {"platform" :> PyDict([name |-> PyStr(n)]) :
            n \in {"email", "slack", "victorops", "nosuch"}}
    \cup {"platform" :> PyDict(<<>>), "platform" :> PyNone}

\* The "params" entries a plugin configuration may hold
ParamsEntries ==
    {<<>>, "params" :> PyNone}
    \cup {"params" :> PyDict(d) :
            d \in {<<>>,
                   [a |-> PyStr(BOOLEAN_TRUE), b |-> PyStr(<<" ">>)],
                   [message |-> PyStr(<<"x">>), port |-> PyInt(5)]}}

PluginConfigurations == {pl @@ pa : pl \in PlatformEntries, pa \in ParamsEntries}

-----------------------------------------------------------------------------
(* NotifierPlugin.validate_step *)

ValidationResult(success, message) ==
    [t |-> "ValidationResult", success |-> success, message |-> message]

\* What notifier._validate_data(args) may do: return, raise BadArguments with the
\* library's message, or raise something else
ValidatorOutcomes ==
    {[type |-> "none", msg |-> <<>>],
     [type |-> "BadArguments", msg |-> <<"'webhook_url' is a required property">>],
     [type |-> "BadArguments", msg |-> <<"5 is not of type 'string'">>],
     [type |-> "SchemaError", msg |-> <<"schema">>],
     [type |-> "TypeError", msg |-> <<"unhashable">>]}

NotCalled == [type |-> "not called", msg |-> <<>>]

Finish(res, e, called, outcome, final) ==
    [result |-> res, exc |-> e, calls |-> called, validator |-> outcome, passed |-> final]

\* validate_step with "except Exception" in place of "except BadArguments"
ValidateStepCatchAll(name, conf, outcome) ==
    IF name # "params"
    THEN Finish(ValidationResult(TRUE, <<"Validation successful.">>), NoExc, <<>>,
                NotCalled, <<>>)
    ELSE LET notifier == _get_notifier(conf)
             p == DictGet(conf, "params", PyDict(<<>>))
         IN  IF ~notifier.ok
             THEN Finish(Unbound, notifier.exc, <<"get_notifier">>, NotCalled, <<>>)
             ELSE IF p.t # "dict"
             THEN Finish(Unbound, Raise("AttributeError", <<"items">>), <<"get_notifier">>,
                         NotCalled, <<>>)
             ELSE LET final == Merge(_get_args_from_params(p.d),
                                     [key \in Range(FieldsOf(MAPPED_FIELDS,
                                                             PlatformName(conf).v))
                                         |-> PyStr(<<>>)])
                  IN  IF outcome.type # "none"
                      THEN Finish(ValidationResult(FALSE, outcome.msg), NoExc,
                                  <<"get_notifier", "_validate_data">>, outcome, final)
                      ELSE Finish(ValidationResult(TRUE, <<"Validation successful.">>),
                                  NoExc, <<"get_notifier", "_validate_data">>, outcome,
                                  final)

\* lines 280-329: the finished call for a step name, a configuration and what the
\* provider's validator does when it is invoked.  calls lists the library calls
\* made (registry lookup, validator); passed is the mapping given to the validator.
ValidateStep(name, conf, outcome) ==
    IF name # "params"
    THEN Finish(ValidationResult(TRUE, <<"Validation successful.">>), NoExc, <<>>,
                NotCalled, <<>>)
    ELSE LET platform == PlatformName(conf)
         IN  IF ~platform.ok
             THEN Finish(Unbound, platform.exc, <<>>, NotCalled, <<>>)
             ELSE
         LET notifier == _get_notifier(conf)
             p == DictGet(conf, "params", PyDict(<<>>))
         IN  IF ~notifier.ok
             THEN Finish(Unbound, notifier.exc, <<"get_notifier">>, NotCalled, <<>>)
             ELSE IF p.t # "dict"
             THEN Finish(Unbound, Raise("AttributeError", <<"items">>), <<"get_notifier">>,
                         NotCalled, <<>>)
             ELSE LET mapped_fields == [key \in Range(FieldsOf(MAPPED_FIELDS, platform.v))
                                            |-> PyStr(<<>>)]
                      final == Merge(_get_args_from_params(p.d), mapped_fields)
                  IN  IF outcome.type = "BadArguments"
                      THEN Finish(ValidationResult(FALSE, outcome.msg), NoExc,
                                  <<"get_notifier", "_validate_data">>, outcome, final)
                      ELSE IF outcome.type # "none"
                      THEN Finish(Unbound, outcome,
                                  <<"get_notifier", "_validate_data">>, outcome, final)
                      ELSE Finish(ValidationResult(TRUE, <<"Validation successful.">>),
                                  NoExc, <<"get_notifier", "_validate_data">>, outcome,
                                  final)

StepNames == {"params", "platform", "mapping_config"}

\* The step the host is about to validate
ValidateInit ==
    /\ step \in [name : StepNames, configuration : PluginConfigurations]
    /\ validation = Unbound

ValidateUnused ==
    /\ step = [name |-> "params", configuration |-> <<>>]
    /\ validation = Unbound

\* The call validate_step(name, configuration)
ValidateStepCall ==
    /\ UNCHANGED notValidateVars
    /\ validation = Unbound
    /\ \E outcome \in ValidatorOutcomes :
            validation' = ValidateStep(step.name, step.configuration, outcome)
    /\ UNCHANGED step

ValidateNext == ValidateStepCall

\* C8: a step other than "params" succeeds without resolving the provider or
\* invoking its validator; for "params" the result is a failure carrying the
\* library's message exactly when the validator raises BadArguments, a success when
\* the validator raises nothing, and any other exception (provider not found
\* included) reaches the caller.
C8_ValidateStep ==
    validation # Unbound =>
        /\ step.name # "params" =>
              /\ validation.result = ValidationResult(TRUE, <<"Validation successful.">>)
              /\ validation.exc = NoExc
              /\ validation.calls = <<>>
        /\ step.name = "params" =>
              /\ (validation.result # Unbound /\ ~validation.result.success)
                    <=> validation.validator.type = "BadArguments"
              /\ validation.validator.type = "BadArguments"
                    => /\ validation.result.message = validation.validator.msg
                       /\ validation.exc = NoExc
              /\ validation.validator.type = "none"
                    => /\ validation.result # Unbound
                       /\ validation.result.success
                       /\ validation.exc = NoExc
              /\ validation.validator.type \notin {"BadArguments", "none", "not called"}
                    => /\ validation.result = Unbound
                       /\ validation.exc = validation.validator
              /\ validation.validator.type = "not called"
                    => /\ validation.result = Unbound
                       /\ validation.exc # NoExc
              /\ (/\ "platform" \in DOMAIN step.configuration
                  /\ step.configuration["platform"] = PyDict([name |-> PyStr("nosuch")]))
                    => validation.exc = Raise("ValueError", <<"Notifier not found.">>)

C8_Witness ==
    /\ validation # Unbound
    /\ step.name = "params"
    /\ validation.validator.type = "BadArguments"
    /\ validation.result = ValidationResult(FALSE, <<"5 is not of type 'string'">>)
    /\ "message" \in DOMAIN validation.passed

-----------------------------------------------------------------------------
(* NotifierPlugin.create_task *)

\* The plugin instances the host runs, each with its own proxy (self.proxy)
Instances == {"A", "B"}
ProxyOf == [A |-> "proxy-a", B |-> "proxy-b"]

\* The module-level functions create_task rebinds
PatchedFunctions == {"notifier_requests.get", "notifier_requests.post",
                     "requests.get", "requests.post"}

\* Number of uuid4 values the model lets the adapter generate
MaxTasks == 2

\* Configurations a plugin instance is constructed with
TaskConfigurations ==
    {"platform" :> PyDict([name |-> PyStr("slack")])
        @@ "params" :> PyDict([webhook_url |-> PyStr(<<"u">>), message |-> PyStr(<<"x">>)]),
     "platform" :> PyDict([name |-> PyStr("slack")]),
     "platform" :> PyDict([name |-> PyStr("nosuch")]) @@ "params" :> PyDict(<<>>)}

\* The mappings of an alert
TaskMappings == {<<>>, [message |-> PyStr(<<"h", "i">>)]}

\* lib.notifiers Response: what notify returns (ok, or the provider's errors)
NotifyResponses ==
    {[t |-> "Response", ok |-> TRUE, errors |-> <<>>],
     [t |-> "Response", ok |-> FALSE, errors |-> <<"channel_not_found">>]}

\* What notifier.notify(**filtered_args) may do: return a Response or raise
NotifyOutcomes ==
    {[response |-> r, exc |-> NoExc] : r \in NotifyResponses}
    \cup {[response |-> Unbound, exc |-> Raise("BadArguments", <<"missing webhook_url">>)]}

\* lib.notifiers Response.raise_on_errors: raises for a result that is not ok
raise_on_errors(r) ==
    IF r.ok THEN NoExc ELSE Raise("NotificationError", r.errors)

Task(id, status) == [t |-> "Task", id |-> id, status |-> status]

\* lines 207-217: the notifier and the filtered arguments, or the exception
PrepareTask(conf, mappings) ==
    LET notifier == _get_notifier(conf)
        p == DictGet(conf, "params", PyNone)
    IN  IF ~notifier.ok
        THEN [ok |-> FALSE, exc |-> notifier.exc, filtered_args |-> <<>>]
        ELSE IF p.t # "dict"
        THEN [ok |-> FALSE, exc |-> Raise("TypeError", <<"'", p.t, "' object is not a mapping">>),
              filtered_args |-> <<>>]
        ELSE [ok |-> TRUE, exc |-> NoExc,
              filtered_args |-> _get_args_from_params(Merge(p.d, mappings))]

\* FinishTask without the call of raise_on_errors (line 241)
FinishTaskNoRaise(r, uuid) ==
    IF r.ok
    THEN [pc |-> "returned", result |-> Task(uuid, "NOTIFICATION"), exc |-> NoExc]
    ELSE [pc |-> "returned", result |-> PyNone, exc |-> NoExc]

\* lines 241-246: what create_task makes of the Response r of notify
FinishTask(r, uuid) ==
    IF raise_on_errors(r) # NoExc
    THEN [pc |-> "raised", result |-> Unbound, exc |-> raise_on_errors(r)]
    ELSE IF r.ok
    THEN [pc |-> "returned", result |-> Task(uuid, "NOTIFICATION"), exc |-> NoExc]
    ELSE [pc |-> "returned", result |-> PyNone, exc |-> NoExc]

IdleTask == [pc |-> "idle", filtered_args |-> <<>>, via |-> "none", response |-> Unbound,
             result |-> Unbound, exc |-> NoExc]

TaskInit ==
    /\ plugin \in [Instances -> [configuration : TaskConfigurations,
                                  proxy : {ProxyOf[i] : i \in Instances}]]
    /\ \A i \in Instances : plugin[i].proxy = ProxyOf[i]
    /\ bindings = [f \in PatchedFunctions |-> "unpatched"]
    /\ task = [i \in Instances |-> IdleTask]
    /\ minted = 0

TaskUnused ==
    /\ plugin = <<>>
    /\ bindings = [f \in PatchedFunctions |-> "unpatched"]
    /\ task = <<>>
    /\ minted = 0

\* lines 205-233 of a call on instance i: resolve the notifier, build the arguments
\* and rebind the four module-level functions to partials carrying self.proxy
\* (a partial of a partial keeps the outer keyword, so the last binding wins)
CreateTaskPrepare(i) ==
    /\ UNCHANGED notTaskVars
    /\ task[i].pc \in {"idle", "returned", "raised"}
    /\ minted < MaxTasks
    /\ \E mappings \in TaskMappings :
          LET prep == PrepareTask(plugin[i].configuration, mappings)
          IN  IF prep.ok
              THEN /\ task' = [task EXCEPT ![i] =
                                 [IdleTask EXCEPT !.pc = "patched",
                                                  !.filtered_args = prep.filtered_args]]
                   /\ bindings' = [f \in PatchedFunctions |-> plugin[i].proxy]
              ELSE /\ task' = [task EXCEPT ![i] =
                                 [IdleTask EXCEPT !.pc = "raised", !.exc = prep.exc]]
                   /\ UNCHANGED bindings
    /\ UNCHANGED <<plugin, minted>>

\* lines 234-246 of the call on instance i: notify goes out through whatever the
\* module-level post is bound to now; then the result is raised or returned
CreateTaskNotify(i) ==
    /\ UNCHANGED notTaskVars
    /\ task[i].pc = "patched"
    /\ \E o \in NotifyOutcomes :
          IF o.exc # NoExc
          THEN /\ task' = [task EXCEPT ![i].pc = "raised", ![i].exc = o.exc,
                                       ![i].via = bindings["notifier_requests.post"]]
               /\ UNCHANGED minted
          ELSE LET fin == FinishTask(o.response, minted + 1)
               IN  /\ task' = [task EXCEPT ![i].pc = fin.pc,
                                            ![i].result = fin.result,
                                            ![i].exc = fin.exc,
                                            ![i].response = o.response,
                                            ![i].via = bindings["notifier_requests.post"]]
                   /\ minted' = IF fin.result # Unbound /\ fin.result.t = "Task"
                                THEN minted + 1 ELSE minted
    /\ UNCHANGED <<plugin, bindings>>

TaskNext == \E i \in Instances : CreateTaskPrepare(i) \/ CreateTaskNotify(i)

\* C7: create_task returns a Task (fresh id, status NOTIFICATION) exactly when the
\* notify result is ok; for a notify result that is not ok it raises and never
\* returns (in particular never returns without a Task).
C7_TaskIffOk ==
    \A i \in DOMAIN task :
        /\ task[i].pc = "returned"
              => /\ task[i].response # Unbound
                 /\ task[i].response.ok
                 /\ task[i].result.t = "Task"
                 /\ task[i].result.status = "NOTIFICATION"
                 /\ task[i].result.id \in 1..minted
                 /\ \A j \in DOMAIN task \ {i} :
                        (task[j].pc = "returned" /\ task[j].result.t = "Task")
                            => task[j].result.id # task[i].result.id
        /\ (task[i].response # Unbound /\ task[i].response.ok)
              => (task[i].pc = "returned" /\ task[i].result.t = "Task")
        /\ (task[i].response # Unbound /\ ~task[i].response.ok)
              => /\ task[i].pc = "raised"
                 /\ task[i].result = Unbound
                 /\ task[i].exc.type = "NotificationError"

C7_Witness ==
    /\ DOMAIN task = Instances
    /\ task["A"].pc = "raised"
    /\ task["A"].response # Unbound
    /\ ~task["A"].response.ok
    /\ task["B"].pc = "returned"
    /\ task["B"].result.t = "Task"

\* C11: the outbound calls of every create_task invocation go through the proxy
\* of the instance that made the call, however the calls of instances with
\* different proxies are interleaved.
C11_NotifyThroughOwnProxy ==
    \A i \in DOMAIN task :
        task[i].via # "none" => task[i].via = plugin[i].proxy

-----------------------------------------------------------------------------
(* NotifierPlugin.get_fields *)

\* A provider's schema of one argument.  type is "absent" when the schema has no
\* "type"; enum and oneOf count only with has_enum / has_oneOf.
Schema(type, has_enum, enum, has_oneOf, oneOf, duplicate, title) ==
    [type |-> type, has_enum |-> has_enum, enum |-> enum, has_oneOf |-> has_oneOf,
     oneOf |-> oneOf, duplicate |-> duplicate, title |-> title]

Plain(type, title) == Schema(type, FALSE, <<>>, FALSE, <<>>, FALSE, title)
Sub(type, title) == [type |-> type, title |-> title]

\* The argument schemas a provider may declare
ArgumentSchemas ==
    {Plain("string", "a string"), Plain("integer", "a number"),
     Plain("boolean", "a flag"), Plain("array", "a list"),
     Schema("string", TRUE, <<(<<"l", "o", "w">>), (<<"h", "i">>)>>, FALSE, <<>>, FALSE,
            "a level"),
     Schema("string", TRUE, <<>>, FALSE, <<>>, FALSE, "no level"),
     Schema("string", FALSE, <<>>, FALSE, <<>>, TRUE, "an alias"),
     Schema("absent", FALSE, <<>>, TRUE,
            <<Sub("array", "many"), Sub("string", "one"), Sub("string", "other")>>,
            FALSE, "either"),
     Schema("absent", FALSE, <<>>, TRUE, <<Sub("array", "many"), Sub("integer", "n")>>,
            FALSE, "numbers"),
     Schema("absent", FALSE, <<>>, TRUE, <<>>, FALSE, "nothing"),
     Schema("boolean", FALSE, <<>>, TRUE, <<Sub("absent", "on"), Sub("absent", "off")>>,
            FALSE, "a switch")}

\* Argument names a provider may declare, in declaration order
ArgumentNames == <<"message", "attachments", "password", "host", "type_">>

\* Number of arguments a provider schema may declare
MaxArgs == 2

\* notifier.arguments: a dict, i.e. distinct names, iterated in declaration order
RECURSIVE ArgumentLists(_)
ArgumentLists(i) ==
    IF i > Len(ArgumentNames) THEN {<<>>}
    ELSE LET rest == ArgumentLists(i + 1)
         IN  rest \cup {<<(<<ArgumentNames[i], v>>)>> \o r :
                            v \in ArgumentSchemas,
                            r \in {x \in rest : Len(x) < MaxArgs}}

\* " ".join(key.split("_")).title() for the argument names
Label(key) ==
    CASE key = "message" -> "Message"
      [] key = "attachments" -> "Attachments"
      [] key = "password" -> "Password"
      [] key = "host" -> "Host"
      [] key = "type_" -> "Type "

Upper(c) == CASE c = "l" -> "L" [] c = "h" -> "H" [] OTHER -> c

\* str.title() of a lower-case word
TitleCase(w) == IF w = <<>> THEN w ELSE <<Upper(Head(w))>> \o Tail(w)

Description(key, title) == <<"(", key, ") ", title>>

\* Skip without the test on EXCLUDED_FIELDS
SkipMappedOnly(platform, key, val, keys) ==
    \/ val.duplicate
    \/ key \in keys
    \/ key \in Range(FieldsOf(MAPPED_FIELDS, platform))

\* lines 408-415: the arguments the loop passes over
Skip(platform, key, val, keys) ==
    \/ val.duplicate
    \/ key \in keys
    \/ key \in Range(FieldsOf(MAPPED_FIELDS, platform))
    \/ key \in Range(FieldsOf(EXCLUDED_FIELDS, platform))

\* lines 417-480: the fields (none or one) appended for an argument
FieldFor(platform, key, val) ==
    IF val.type = "string"
    THEN IF val.has_enum
         THEN <<[label |-> Label(key), key |-> key, type |-> "choice",
                 description |-> Description(key, val.title),
                 choices |-> [i \in 1..Len(val.enum) |->
                                 [key |-> TitleCase(val.enum[i]), value |-> val.enum[i]]],
                 default |-> IF val.enum # <<>> THEN val.enum[1] ELSE <<>>]>>
         ELSE <<[label |-> Label(key), key |-> key,
                 type |-> IF key \in Range(FieldsOf(PASSWORD_FIELDS, platform))
                          THEN "password" ELSE "text",
                 description |-> Description(key, val.title)]>>
    ELSE IF val.type = "integer"
    THEN <<[label |-> Label(key), key |-> key, type |-> "number",
            description |-> Description(key, val.title)]>>
    ELSE IF val.has_oneOf
    THEN LET IsString(x) == x.type = "string"
             string_fields == SelectSeq(val.oneOf, IsString)
         IN  IF string_fields = <<>> THEN <<>>
             ELSE <<[label |-> Label(key), key |-> key, type |-> "text",
                     description |->
                        Description(key, string_fields[Len(string_fields)].title)]>>
    ELSE IF val.type = "boolean"
    THEN <<[label |-> Label(key), key |-> key, type |-> "choice",
            choices |-> <<[key |-> <<"Y", "e", "s">>, value |-> BOOLEAN_TRUE],
                          [key |-> <<"N", "o">>, value |-> BOOLEAN_FALSE]>>,
            default |-> BOOLEAN_TRUE,
            description |-> Description(key, val.title)]>>
    ELSE <<>>

\* lines 405-480: the loop over args.items(), from the i-th argument on
RECURSIVE FieldsLoop(_, _, _, _, _)
FieldsLoop(platform, arguments, i, keys, acc) ==
    IF i > Len(arguments) THEN acc
    ELSE LET key == arguments[i][1]
             val == arguments[i][2]
         IN  IF Skip(platform, key, val, keys)
             THEN FieldsLoop(platform, arguments, i + 1, keys, acc)
             ELSE FieldsLoop(platform, arguments, i + 1, keys \cup {key},
                             acc \o FieldFor(platform, key, val))

\* lines 389-488: the finished call; arguments is the schema of the provider the
\* configuration names
get_fields(name, conf, arguments) ==
    IF name # "params"
    THEN [fields |-> Unbound, exc |-> Raise("NotImplementedError", <<>>)]
    ELSE LET platform == PlatformName(conf)
         IN  IF ~platform.ok THEN [fields |-> Unbound, exc |-> platform.exc]
             ELSE IF ~_get_notifier(conf).ok
             THEN [fields |-> Unbound, exc |-> _get_notifier(conf).exc]
             ELSE [fields |-> FieldsLoop(platform.v, arguments, 1, {}, <<>>),
                   exc |-> NoExc]

\* The "platform" entries of the configurations the form is asked for
FormPlatforms ==
    {"platform" :> PyDict([name |-> PyStr(n)]) :
        n \in {"email", "pushbullet", "slack", "victorops", "nosuch"}}

\* The form the host is about to ask for
FieldsInit ==
    /\ form \in [name : {"params"}, configuration : FormPlatforms,
                 arguments : ArgumentLists(1)]
                \cup [name : {"platform"}, configuration : FormPlatforms,
                      arguments : {<<>>}]
    /\ fields = Unbound

FieldsUnused ==
    /\ form = [name |-> "params", configuration |-> <<>>, arguments |-> <<>>]
    /\ fields = Unbound

\* The call get_fields(name, configuration)
GetFieldsCall ==
    /\ UNCHANGED notFieldsVars
    /\ fields = Unbound
    /\ fields' = get_fields(form.name, form.configuration, form.arguments)
    /\ UNCHANGED form

FieldsNext == GetFieldsCall

\* C9: for every provider and schema, the list get_fields("params", ...) returns
\* holds no field whose key is in the provider's mapped or excluded set, no two
\* fields with the same key, and only keys that are argument names of the schema.
FormPlatform == form.configuration["platform"].d["name"].s

C9_Listed(table) ==
    IF FormPlatform \in DOMAIN table
    THEN {table[FormPlatform][i] : i \in DOMAIN table[FormPlatform]}
    ELSE {}

C9_FieldKeys ==
    (fields # Unbound /\ fields.exc = NoExc) =>
        LET out == fields.fields
        IN  /\ \A i \in DOMAIN out :
                  /\ out[i].key \notin C9_Listed(MAPPED_FIELDS)
                  /\ out[i].key \notin C9_Listed(EXCLUDED_FIELDS)
                  /\ \E j \in DOMAIN form.arguments : form.arguments[j][1] = out[i].key
            /\ \A i, j \in DOMAIN out : out[i].key = out[j].key => i = j

C9_Witness ==
    /\ fields # Unbound
    /\ fields.exc = NoExc
    /\ FormPlatform = "email"
    /\ Len(form.arguments) = 2
    /\ form.arguments[1][1] = "attachments"
    /\ form.arguments[1][2].type = "string"
    /\ form.arguments[2][1] = "host"
    /\ Len(fields.fields) = 1
    /\ fields.fields[1].key = "host"

\* The arguments of the form get_fields reads a field from (not passed over), whose
\* schema is a union and is typed neither string nor integer
C12_UnionArguments ==
    {i \in DOMAIN form.arguments :
        /\ ~Skip(PyStr(FormPlatform), form.arguments[i][1], form.arguments[i][2], {})
        /\ form.arguments[i][2].type \notin {"string", "integer"}
        /\ form.arguments[i][2].has_oneOf}

C12_StringSubSchemas(i) ==
    LET IsString(x) == x.type = "string"
    IN  SelectSeq(form.arguments[i][2].oneOf, IsString)

C12_FieldsOfKey(key) ==
    SelectSeq(fields.fields, LAMBDA f : f.key = key)

\* C12: a union argument is emitted as one text field whose description shows the
\* title of the FIRST string-typed sub-schema of its oneOf list when there is one,
\* and is not emitted when there is none.
C12_UnionFirstString ==
    (fields # Unbound /\ fields.exc = NoExc) =>
        \A i \in C12_UnionArguments :
            LET key == form.arguments[i][1]
                subs == C12_StringSubSchemas(i)
                out == C12_FieldsOfKey(key)
            IN  IF subs = <<>> THEN out = <<>>
                ELSE /\ Len(out) = 1
                     /\ out[1].type = "text"
                     /\ out[1].description = Description(key, subs[1].title)

-----------------------------------------------------------------------------
(* The form of get_fields, filled in and resolved by _get_args_from_params *)

\* The fields of the returned form that offer options
ChoiceFields ==
    {i \in DOMAIN fields.fields :
        /\ fields.fields[i].type = "choice"
        /\ fields.fields[i].choices # <<>>}

OptionValues(i) ==
    {fields.fields[i].choices[j].value : j \in DOMAIN fields.fields[i].choices}

\* The host stores, under each choice field's key, the value of the option chosen;
\* create_task reads them back as configuration["params"] (line 214)
SubmitForm ==
    /\ UNCHANGED notArgsVars
    /\ fields # Unbound
    /\ fields.exc = NoExc
    /\ ChoiceFields # {}
    /\ DOMAIN params = {}
    /\ args = Unbound
    /\ params' \in {p \in [{fields.fields[i].key : i \in ChoiceFields} ->
                              {PyStr(v) : v \in UNION {OptionValues(i) : i \in ChoiceFields}}] :
                        \A i \in ChoiceFields : p[fields.fields[i].key].s \in OptionValues(i)}
    /\ UNCHANGED args

FormNext == GetFieldsCall \/ SubmitForm \/ GetArgsFromParams

\* The arguments of the form typed boolean for which a field was emitted
C13_BooleanFields ==
    {i \in DOMAIN fields.fields :
        \E a \in DOMAIN form.arguments :
            /\ form.arguments[a][1] = fields.fields[i].key
            /\ form.arguments[a][2].type = "boolean"}

-----------------------------------------------------------------------------
(* Specifications: one per operation under study, the others at rest *)

InitIngest == IngestInit /\ ArgsUnused /\ ValidateUnused /\ TaskUnused /\ FieldsUnused

SpecIngest == InitIngest /\ [][IngestNext]_vars

InitArgs == ArgsInit /\ IngestUnused /\ ValidateUnused /\ TaskUnused /\ FieldsUnused

SpecArgs == InitArgs /\ [][ArgsNext]_vars

InitValidate == ValidateInit /\ IngestUnused /\ ArgsUnused /\ TaskUnused /\ FieldsUnused

SpecValidate == InitValidate /\ [][ValidateNext]_vars

InitTask == TaskInit /\ IngestUnused /\ ArgsUnused /\ ValidateUnused /\ FieldsUnused

SpecTask == InitTask /\ [][TaskNext]_vars

InitFields == FieldsInit /\ IngestUnused /\ ArgsUnused /\ ValidateUnused /\ TaskUnused

SpecFields == InitFields /\ [][FieldsNext]_vars

InitForm == FieldsInit /\ IngestUnused /\ ArgsUnused /\ ValidateUnused /\ TaskUnused

SpecForm == InitForm /\ [][FormNext]_vars

====
